---- MODULE Spec2Model ----
(***************************************************************************)
(* Attendance verification: the SelfieCapture dialog (selfie-capture.tsx), *)
(* the AttendanceView that records clock-in / clock-out from its success   *)
(* callback (attendance-view.tsx), the attendance table with its row level *)
(* security policies (001_create_database_schema.sql), the selfies bucket, *)
(* and the GeofenceValidator (geofence-validator.tsx), which no page       *)
(* renders and which has a specification of its own (SpecGeo).             *)
(*                                                                         *)
(* Every handler is one action per synchronous stretch of its code: the    *)
(* part up to an await, and one action per outcome of the awaited call.    *)
(* React state set inside one stretch is committed together, and the refs  *)
(* to rendered elements follow the committed state.                        *)
(*                                                                         *)
(* startCamera attaches the stream only when the <video> element exists,   *)
(* and that element is rendered only while isCapturing is TRUE, so a run   *)
(* from construction (InitConstructed) never shows the live preview.  The  *)
(* handlers behind the preview (capturePhoto, confirmCapture, retakePhoto, *)
(* handleSelfieSuccess) are analysed from sessions in which the preview is *)
(* showing (InitPreview), every transition being the code's own.           *)
(***************************************************************************)
EXTENDS Integers, FiniteSets, Sequences, TLC

\* ---------------------------------------------------------------- bounds
MaxTime == 3          \* the clock runs from 1 to MaxTime
TicksPerDay == 2      \* clock ticks per calendar date
MaxPendingCam == 2    \* getUserMedia calls pending at once
MaxPendingLoc == 2    \* getCurrentPosition calls pending at once
MaxStreams == 2       \* camera streams ever granted
MaxFrames == 2        \* frames ever taken: location requests resolved, uploads sent

\* ------------------------------------------------------------- constants
Users == {"u1", "u2", "u3"}
\* public.profiles.role
RoleOf == [u \in Users |-> CASE u = "u1" -> "employee"
                             [] u = "u2" -> "manager"
                             [] OTHER    -> "admin"]
Employees == {"u1", "u2"}
Actions == {"clock_in", "clock_out"}
Statuses == {"present", "absent", "late", "early_departure"}

NoImage == 0
NoStream == 0
NoTime == 0
NoText == <<>>
NoPoint == <<>>
NoLocation == [lat |-> 999, lng |-> 999]
NoError == "null"
\* useState<boolean | null>(null), useState<number | null>(null) and the
\* userLocation prop without a value
NoVerdict == "null"
NoDistance == -1
NoUserLocation == [lat |-> 9999999, lng |-> 9999999]
NoRecord == [id |-> 0, user_id |-> "null", date |-> 0, clock_in |-> NoTime,
             clock_out |-> NoTime, status |-> "present", selfie_url |-> NoText,
             clock_in_location |-> NoPoint, clock_out_location |-> NoPoint]

VARIABLES
  \* SelfieCapture hooks
  isCapturing, capturedImage, isProcessing, location, error, streamRef,
  \* AttendanceView hooks
  profile, todayRecord, loading, showSelfieCapture, captureAction,
  \* awaited calls in flight
  pendingCam, pendingLoc, uploads, writes, loads,
  \* the world: the camera, the database, the clock
  openStreams, nStreams, stopped, cameraFailed, nFrames, attendance, bucket,
  nextId, now,
  \* the outcome of the last write statement the database executed
  response,
  \* GeofenceValidator: its props, its hooks, the values onValidationChange
  \* was called with, and whether its effect is due
  userLocation, workLocation, isWithinGeofence, distance, validationCalls, effectDue

capture == <<isCapturing, capturedImage, isProcessing, location, error, streamRef>>
view == <<profile, todayRecord, loading, showSelfieCapture, captureAction>>
flight == <<pendingCam, pendingLoc, uploads, writes, loads>>
world == <<openStreams, nStreams, stopped, cameraFailed, nFrames, attendance, bucket, nextId, now>>
geofence == <<userLocation, workLocation, isWithinGeofence, distance, validationCalls,
              effectDue>>
vars == <<capture, view, flight, world, response, geofence>>

\* -------------------------------------------------------- pure functions
\* new Date().toISOString().split("T")[0]
DateOf(t) == (t + TicksPerDay - 1) \div TicksPerDay

\* the coordinate the n-th resolved location request delivers
Coord(n) == [lat |-> 40 + n, lng |-> -74 - n]

\* `POINT(${location.lng} ${location.lat})`
LocationPoint(loc) == <<loc.lng, loc.lat>>

\* selfies/${userId}/${action}_${timestamp}.jpg and its public URL
Filename(userId, action, t) == <<"selfies", userId, action, t>>

\* the elements the committed render holds: <Dialog open={isOpen}> shows its
\* content, the <canvas> is always in the content, the <video> only while
\* isCapturing
isOpen == showSelfieCapture
canvasRefCurrent == isOpen
videoRefCurrent == isOpen /\ isCapturing

\* .upload(filename, blob, {upsert: false}): the bucket keeps an object it
\* has under that name and answers with an error
UploadAccepted(objects, filename) == filename \notin objects

\* ------------------------------------------------------ attendance table
RowsOf(u, d) == {r \in attendance : r.user_id = u /\ r.date = d}

SelectPolicy(uid, row) ==
  row.user_id = uid \/ RoleOf[uid] \in {"admin", "manager"}

InsertPolicy(uid, row) == row.user_id = uid

\* the update policy without its USING clause
UpdatePolicyForAll(uid, row) == TRUE

UpdatePolicy(uid, row) ==
  row.user_id = uid \/ RoleOf[uid] \in {"admin", "manager"}

\* UNIQUE(user_id, date)
UniqueUserDate(table, row) ==
  \A r \in table : ~(r.user_id = row.user_id /\ r.date = row.date)

\* the row .upsert({...}) sends: no id, so the conflict target (the primary
\* key) never matches and the statement is an INSERT of a new row
ClockInRow(id, uid, t, selfieUrl, loc) ==
  [id |-> id, user_id |-> uid, date |-> DateOf(t), clock_in |-> t,
   clock_out |-> NoTime, status |-> "present", selfie_url |-> selfieUrl,
   clock_in_location |-> LocationPoint(loc), clock_out_location |-> NoPoint]

\* a clock-out that writes the whole row anew and so loses the clock-in
ClockOutRowReplacing(row, t, loc) ==
  [row EXCEPT !.clock_in = NoTime, !.clock_in_location = NoPoint,
              !.clock_out = t, !.clock_out_location = LocationPoint(loc)]

\* a clock-out that marks the record as an early departure
ClockOutRowEarly(row, t, loc) ==
  [row EXCEPT !.clock_out = t, !.clock_out_location = LocationPoint(loc),
              !.status = "early_departure"]

\* a clock-out that stores the selfie of its capture in the record
ClockOutRowWithSelfie(row, t, loc) ==
  [row EXCEPT !.clock_out = t, !.clock_out_location = LocationPoint(loc),
              !.selfie_url = Filename(row.user_id, "clock_out", t)]

\* a clock-out stamped with a clock that runs MaxTime behind
ClockOutRowLagging(row, t, loc) ==
  [row EXCEPT !.clock_out = t - MaxTime, !.clock_out_location = LocationPoint(loc)]

\* .update({clock_out, clock_out_location})
ClockOutRow(row, t, loc) ==
  [row EXCEPT !.clock_out = t, !.clock_out_location = LocationPoint(loc)]

\* an attendance table without its UNIQUE(user_id, date) constraint
InsertAcceptedNoUnique(uid, table, row) == InsertPolicy(uid, row)

\* can the INSERT of row by uid succeed on table
InsertAccepted(uid, table, row) ==
  InsertPolicy(uid, row) /\ UniqueUserDate(table, row)

\* the rows UPDATE ... WHERE id = id touches for uid
UpdateTargets(uid, table, id) ==
  {r \in table : r.id = id /\ UpdatePolicy(uid, r)}

\* ------------------------------------------------------------------ Init
NoResponse == [op |-> "none", uid |-> "null", id |-> 0, ok |-> TRUE]

\* tables a first clock-in of the day has produced
InitTables ==
  {{}} \cup {{ClockInRow(1, u, 1, Filename(u, "clock_in", 1), Coord(0))} : u \in Employees}

InitWorld ==
  /\ attendance \in InitTables
  /\ nextId = Cardinality(attendance) + 1
  /\ bucket = {r.selfie_url : r \in attendance}
  /\ now = 1
  /\ nFrames = 0
  /\ response = NoResponse
  /\ pendingCam = 0 /\ pendingLoc = 0 /\ uploads = {} /\ writes = {}

\* no page renders a GeofenceValidator
NoValidator ==
  /\ userLocation = NoUserLocation
  /\ workLocation = [lat |-> 400000, lng |-> -740000, radius |-> 100000]
  /\ isWithinGeofence = NoVerdict /\ distance = NoDistance
  /\ validationCalls = <<>> /\ effectDue = FALSE

\* AttendanceView and SelfieCapture as useState / useRef construct them,
\* with the mount effect's loadAttendanceData in flight
InitSession ==
  /\ InitWorld
  /\ profile = "u1"
  /\ todayRecord = NoRecord /\ loading = TRUE /\ loads = 1
  /\ showSelfieCapture = FALSE /\ captureAction = "clock_in"
  /\ isCapturing = FALSE /\ capturedImage = NoImage /\ isProcessing = FALSE
  /\ location = NoLocation /\ error = NoError /\ streamRef = NoStream
  /\ openStreams = {} /\ nStreams = 0 /\ stopped = <<>> /\ cameraFailed = FALSE

InitConstructed == InitSession /\ NoValidator

\* the dialog showing the live preview for the button the view offers
InitPreview ==
  /\ InitWorld
  /\ profile = "u1"
  /\ todayRecord \in {NoRecord} \cup RowsOf(profile, DateOf(now))
  /\ loading = FALSE /\ loads = 0
  /\ showSelfieCapture = TRUE
  /\ captureAction = IF todayRecord = NoRecord THEN "clock_in" ELSE "clock_out"
  /\ isCapturing = TRUE /\ capturedImage = NoImage /\ isProcessing = FALSE
  /\ location = NoLocation /\ error = NoError /\ streamRef = 1
  /\ openStreams = {1} /\ nStreams = 1 /\ stopped = <<>> /\ cameraFailed = FALSE
  /\ NoValidator

Init == InitConstructed \/ InitPreview

\* --------------------------------------------------------- SelfieCapture
\* a stopCamera that does not stop the tracks
StopCameraStreamsKept == openStreams

\* stopCamera, as the values it leaves
StopCameraStreams == IF streamRef # NoStream THEN openStreams \ {streamRef} ELSE openStreams

\* a stopCamera that keeps the reference to the stream it stopped
StopCameraRefKept == streamRef

StopCameraRef == IF streamRef # NoStream THEN NoStream ELSE streamRef

\* the track.stop() calls made so far, by stream
StopCameraStopped == IF streamRef # NoStream THEN Append(stopped, streamRef) ELSE stopped

\* click on Start Camera: startCamera up to the await
StartCamera ==
  /\ isOpen /\ ~isCapturing /\ capturedImage = NoImage
  /\ pendingCam < MaxPendingCam
  /\ error' = NoError
  /\ pendingCam' = pendingCam + 1
  /\ UNCHANGED <<isCapturing, capturedImage, isProcessing, location, streamRef,
                 view, pendingLoc, uploads, writes, loads, world, response, geofence>>

\* getUserMedia resolves with a new stream
CameraGranted ==
  /\ pendingCam > 0 /\ nStreams < MaxStreams
  /\ pendingCam' = pendingCam - 1
  /\ nStreams' = nStreams + 1
  /\ openStreams' = openStreams \cup {nStreams + 1}
  /\ IF videoRefCurrent
       THEN streamRef' = nStreams + 1 /\ isCapturing' = TRUE
       ELSE UNCHANGED <<streamRef, isCapturing>>
  /\ UNCHANGED <<capturedImage, isProcessing, location, error, view, pendingLoc,
                 uploads, writes, loads, stopped, cameraFailed, nFrames, attendance, bucket, nextId, now,
                 response, geofence>>

\* getUserMedia rejects
CameraDenied ==
  /\ pendingCam > 0
  /\ pendingCam' = pendingCam - 1
  /\ error' = "camera"
  /\ cameraFailed' = TRUE
  /\ UNCHANGED <<isCapturing, capturedImage, isProcessing, location, streamRef,
                 view, pendingLoc, uploads, writes, loads, openStreams, nStreams,
                 stopped, nFrames, attendance, bucket, nextId, now, response,
                 geofence>>

\* a capturePhoto that draws the frame before it awaits the location
CapturePhotoEager ==
  /\ isOpen /\ isCapturing
  /\ videoRefCurrent /\ canvasRefCurrent
  /\ pendingLoc < MaxPendingLoc /\ nFrames < MaxFrames
  /\ pendingLoc' = pendingLoc + 1
  /\ nFrames' = nFrames + 1
  /\ capturedImage' = nFrames + 1
  /\ UNCHANGED <<isCapturing, isProcessing, location, error, streamRef, view,
                 pendingCam, uploads, writes, loads, openStreams, nStreams, stopped, cameraFailed,
                 attendance, bucket, nextId, now, response, geofence>>

\* click on Capture: capturePhoto up to the await
CapturePhoto ==
  /\ isOpen /\ isCapturing
  /\ videoRefCurrent /\ canvasRefCurrent
  /\ pendingLoc < MaxPendingLoc
  /\ pendingLoc' = pendingLoc + 1
  /\ UNCHANGED <<capture, view, pendingCam, uploads, writes, loads, world, response, geofence>>

\* getCurrentPosition succeeds: the rest of capturePhoto.  Drawing the frame
\* needs the canvas and the video element; without them the code throws
\* after setLocation and lands in its catch.
LocationResolved ==
  /\ pendingLoc > 0 /\ nFrames < MaxFrames
  /\ pendingLoc' = pendingLoc - 1
  /\ nFrames' = nFrames + 1
  /\ location' = Coord(nFrames + 1)
  /\ IF canvasRefCurrent /\ videoRefCurrent
       THEN /\ capturedImage' = nFrames + 1
            /\ openStreams' = StopCameraStreams
            /\ stopped' = StopCameraStopped
            /\ streamRef' = StopCameraRef
            /\ isCapturing' = FALSE
            /\ UNCHANGED error
       ELSE /\ error' = "capture"
            /\ UNCHANGED <<capturedImage, openStreams, stopped, streamRef, isCapturing>>
  /\ UNCHANGED <<isProcessing, view, pendingCam, uploads, writes, loads, nStreams,
                 cameraFailed, attendance, bucket, nextId, now, response, geofence>>

\* a capturePhoto whose catch did not stop the rest of the handler
LocationFailedCapturing ==
  /\ pendingLoc > 0 /\ nFrames < MaxFrames
  /\ pendingLoc' = pendingLoc - 1
  /\ nFrames' = nFrames + 1
  /\ capturedImage' = nFrames + 1
  /\ error' = "capture"
  /\ UNCHANGED <<isCapturing, isProcessing, location, streamRef,
                 view, pendingCam, uploads, writes, loads, openStreams, nStreams, stopped, cameraFailed,
                 attendance, bucket, nextId, now, response, geofence>>

\* getCurrentPosition fails, or geolocation is unsupported
LocationFailed ==
  /\ pendingLoc > 0
  /\ pendingLoc' = pendingLoc - 1
  /\ error' = "capture"
  /\ UNCHANGED <<isCapturing, capturedImage, isProcessing, location, streamRef,
                 view, pendingCam, uploads, writes, loads, openStreams, nStreams, stopped, cameraFailed,
                 nFrames, attendance, bucket, nextId, now, response, geofence>>

\* click on Confirm: confirmCapture up to the await, with the values its
\* closure holds (capturedImage, location, userId, action, and the view's
\* todayRecord inside onSuccess)
ConfirmCapture ==
  /\ isOpen /\ capturedImage # NoImage /\ ~isProcessing
  /\ capturedImage # NoImage /\ location # NoLocation
  /\ isProcessing' = TRUE
  /\ uploads' = uploads \cup {[image |-> capturedImage, location |-> location,
                               userId |-> profile, action |-> captureAction,
                               filename |-> Filename(profile, captureAction, now),
                               today |-> todayRecord]}
  /\ UNCHANGED <<isCapturing, capturedImage, location, error, streamRef, view,
                 pendingCam, pendingLoc, writes, loads, world, response, geofence>>

\* click on Retake
RetakePhoto ==
  /\ isOpen /\ capturedImage # NoImage /\ ~isProcessing
  /\ pendingCam < MaxPendingCam
  /\ capturedImage' = NoImage
  /\ location' = NoLocation
  /\ error' = NoError
  /\ pendingCam' = pendingCam + 1
  /\ UNCHANGED <<isCapturing, isProcessing, streamRef, view, pendingLoc, uploads,
                 writes, loads, world, response, geofence>>

\* the dialog is dismissed (Escape, overlay, the X buttons)
HandleClose ==
  /\ isOpen
  /\ openStreams' = StopCameraStreams
  /\ stopped' = StopCameraStopped
  /\ streamRef' = StopCameraRef
  /\ isCapturing' = FALSE
  /\ capturedImage' = NoImage
  /\ location' = NoLocation
  /\ error' = NoError
  /\ showSelfieCapture' = FALSE
  /\ UNCHANGED <<isProcessing, profile, todayRecord, loading, captureAction,
                 flight, nStreams, cameraFailed, nFrames, attendance, bucket, nextId,
                 now, response, geofence>>

\* -------------------------------------------------------- AttendanceView
\* handleSelfieSuccess up to its await, called as onSuccess by the upload u:
\* the statement it sends to the database, if any.  captureAction, profile
\* and todayRecord are the ones of the render confirmCapture was created in.
SelfieSuccessWrites(u, selfieUrl, loc) ==
  IF u.action = "clock_in"
    THEN {[op |-> "upsert", uid |-> u.userId, id |-> 0, t |-> now,
           selfie_url |-> selfieUrl, loc |-> loc]}
    ELSE IF u.today = NoRecord
      THEN {}
      ELSE {[op |-> "update", uid |-> u.userId, id |-> u.today.id, t |-> now,
             selfie_url |-> NoText, loc |-> loc]}

\* the upload succeeds: the rest of confirmCapture
UploadDone(u) ==
  /\ u \in uploads /\ UploadAccepted(bucket, u.filename)
  /\ uploads' = uploads \ {u}
  /\ bucket' = bucket \cup {u.filename}
  /\ writes' = writes \cup SelfieSuccessWrites(u, u.filename, u.location)
  /\ capturedImage' = NoImage
  /\ location' = NoLocation
  /\ showSelfieCapture' = FALSE
  /\ isProcessing' = FALSE
  /\ UNCHANGED <<isCapturing, error, streamRef, profile, todayRecord, loading,
                 captureAction, pendingCam, pendingLoc, loads, openStreams, nStreams,
                 stopped, cameraFailed, nFrames, attendance, nextId, now, response, geofence>>

\* a confirmCapture whose catch discarded the capture
UploadFailedDiscarding(u) ==
  /\ u \in uploads
  /\ uploads' = uploads \ {u}
  /\ error' = "upload"
  /\ isProcessing' = FALSE
  /\ capturedImage' = NoImage
  /\ location' = NoLocation
  /\ UNCHANGED <<isCapturing, streamRef, view, pendingCam,
                 pendingLoc, writes, loads, openStreams, nStreams, stopped, cameraFailed, nFrames,
                 attendance, bucket, nextId, now, response, geofence>>

\* the upload fails
UploadFailed(u) ==
  /\ u \in uploads
  /\ uploads' = uploads \ {u}
  /\ error' = "upload"
  /\ isProcessing' = FALSE
  /\ UNCHANGED <<isCapturing, capturedImage, location, streamRef, view, pendingCam,
                 pendingLoc, writes, loads, openStreams, nStreams, stopped, cameraFailed, nFrames,
                 attendance, bucket, nextId, now, response, geofence>>

\* the database executes the upsert of handleSelfieSuccess and the handler
\* goes on: setTodayRecord(data), loadAttendanceData(), or the catch
UpsertExecuted(w) ==
  /\ w \in writes /\ w.op = "upsert"
  /\ writes' = writes \ {w}
  /\ LET row == ClockInRow(nextId, w.uid, w.t, w.selfie_url, w.loc) IN
     IF InsertAccepted(w.uid, attendance, row)
       THEN /\ attendance' = attendance \cup {row}
            /\ nextId' = nextId + 1
            /\ todayRecord' = row
            /\ loads' = loads + 1
            /\ response' = [op |-> "upsert", uid |-> w.uid, id |-> row.id, ok |-> TRUE]
       ELSE /\ response' = [op |-> "upsert", uid |-> w.uid, id |-> 0, ok |-> FALSE]
            /\ UNCHANGED <<attendance, nextId, todayRecord, loads>>
  /\ UNCHANGED <<capture, profile, loading, showSelfieCapture, captureAction,
                 pendingCam, pendingLoc, uploads, openStreams, nStreams, stopped, cameraFailed,
                 nFrames, bucket, now,
                 geofence>>

\* the database executes the update of handleSelfieSuccess; .single() is an
\* error when no row comes back
UpdateExecuted(w) ==
  /\ w \in writes /\ w.op = "update"
  /\ writes' = writes \ {w}
  /\ LET targets == UpdateTargets(w.uid, attendance, w.id) IN
     IF targets # {}
       THEN LET old == CHOOSE r \in targets : TRUE
                row == ClockOutRow(old, w.t, w.loc) IN
            /\ attendance' = (attendance \ {old}) \cup {row}
            /\ todayRecord' = row
            /\ loads' = loads + 1
            /\ response' = [op |-> "update", uid |-> w.uid, id |-> row.id, ok |-> TRUE]
       ELSE /\ response' = [op |-> "update", uid |-> w.uid, id |-> w.id, ok |-> FALSE]
            /\ UNCHANGED <<attendance, todayRecord, loads>>
  /\ UNCHANGED <<capture, profile, loading, showSelfieCapture, captureAction,
                 pendingCam, pendingLoc, uploads, openStreams, nStreams, stopped, cameraFailed,
                 nFrames, bucket, nextId, now,
                 geofence>>

\* the request does not reach the database or comes back as an error
WriteFailed(w) ==
  /\ w \in writes
  /\ writes' = writes \ {w}
  /\ response' = [op |-> w.op, uid |-> w.uid, id |-> w.id, ok |-> FALSE]
  /\ UNCHANGED <<capture, view, pendingCam, pendingLoc, uploads, loads,
                 openStreams, nStreams, stopped, cameraFailed, nFrames, attendance, bucket, nextId, now,
                 geofence>>

\* records?.find((r) => r.date === today) over the rows the query returns
FindToday(records) ==
  IF \E r \in records : r.date = DateOf(now)
    THEN CHOOSE r \in records : r.date = DateOf(now)
    ELSE NoRecord

\* loadAttendanceData: the query answers with the user's rows
LoadDone ==
  /\ loads > 0
  /\ loads' = loads - 1
  /\ todayRecord' = FindToday({r \in attendance :
                                 r.user_id = profile /\ SelectPolicy(profile, r)})
  /\ loading' = FALSE
  /\ UNCHANGED <<capture, profile, showSelfieCapture, captureAction, pendingCam,
                 pendingLoc, uploads, writes, world, response, geofence>>

\* loadAttendanceData: the query answers {data: null, error}
LoadFailed ==
  /\ loads > 0
  /\ loads' = loads - 1
  /\ todayRecord' = FindToday({})
  /\ loading' = FALSE
  /\ UNCHANGED <<capture, profile, showSelfieCapture, captureAction, pendingCam,
                 pendingLoc, uploads, writes, world, response, geofence>>

\* click on Clock In (offered when there is no todayRecord) or on Clock Out
\* (offered when todayRecord has no clock_out); the open dialog is modal
OpenDialog(a) ==
  /\ ~loading /\ ~showSelfieCapture
  /\ IF a = "clock_in" THEN todayRecord = NoRecord
                       ELSE todayRecord # NoRecord /\ todayRecord.clock_out = NoTime
  /\ captureAction' = a
  /\ showSelfieCapture' = TRUE
  /\ UNCHANGED <<capture, profile, todayRecord, loading, flight, world, response, geofence>>

\* time passes
Tick ==
  /\ now < MaxTime
  /\ now' = now + 1
  /\ UNCHANGED <<capture, view, flight, openStreams, nStreams, stopped, cameraFailed, nFrames,
                 attendance, bucket, nextId, response, geofence>>

Next ==
  \/ StartCamera \/ CameraGranted \/ CameraDenied
  \/ CapturePhoto \/ LocationResolved \/ LocationFailed
  \/ ConfirmCapture \/ RetakePhoto \/ HandleClose
  \/ \E u \in uploads : UploadDone(u) \/ UploadFailed(u)
  \/ \E w \in writes : UpsertExecuted(w) \/ UpdateExecuted(w) \/ WriteFailed(w)
  \/ LoadDone \/ LoadFailed
  \/ \E a \in Actions : OpenDialog(a)
  \/ Tick

Spec == Init /\ [][Next]_vars

\* ------------------------------------------------- direct database access
\* Any signed-in client can send statements to the attendance table; the
\* policies alone decide.  uid is auth.uid().
MaxRows == 2          \* rows ever inserted through ApiInsert

InitApi == InitConstructed

\* INSERT of a row owned by owner
ApiInsert(uid, owner, t) ==
  /\ nextId <= MaxRows
  /\ LET row == ClockInRow(nextId, owner, t, Filename(owner, "clock_in", t), Coord(0)) IN
     IF InsertAccepted(uid, attendance, row)
       THEN /\ attendance' = attendance \cup {row}
            /\ nextId' = nextId + 1
            /\ response' = [op |-> "insert", uid |-> uid, id |-> row.id, ok |-> TRUE]
       ELSE /\ response' = [op |-> "insert", uid |-> uid, id |-> 0, ok |-> FALSE]
            /\ UNCHANGED <<attendance, nextId>>
  /\ UNCHANGED <<capture, view, flight, openStreams, nStreams, stopped, cameraFailed, nFrames,
                 bucket, now,
                 geofence>>

\* UPDATE ... SET status = st WHERE id = id
ApiUpdate(uid, id, st) ==
  /\ LET targets == UpdateTargets(uid, attendance, id) IN
     IF targets # {}
       THEN LET old == CHOOSE r \in targets : TRUE IN
            /\ attendance' = (attendance \ {old}) \cup {[old EXCEPT !.status = st]}
            /\ response' = [op |-> "update", uid |-> uid, id |-> id, ok |-> TRUE]
       ELSE /\ response' = [op |-> "update", uid |-> uid, id |-> id, ok |-> FALSE]
            /\ UNCHANGED attendance
  /\ UNCHANGED <<capture, view, flight, openStreams, nStreams, stopped, cameraFailed, nFrames,
                 bucket, nextId, now,
                 geofence>>

\* the rows SELECT * FROM attendance returns to uid
Visible(uid) == {r \in attendance : SelectPolicy(uid, r)}

NextApi ==
  \/ \E uid \in Users, owner \in Users, t \in 1..MaxTime : ApiInsert(uid, owner, t)
  \/ \E uid \in Users, id \in 1..MaxRows, st \in {"present", "late"} : ApiUpdate(uid, id, st)

SpecApi == InitApi /\ [][NextApi]_vars

\* ------------------------------------------------------------ uploadSelfie
\* uploadSelfie as any mounted SelfieCapture (any tab or device a user is
\* signed in on) calls it, against the one selfies bucket, empty at first.
\* The n-th call uploads the n-th frame.
InitUpload == InitConstructed /\ bucket = {}

\* uploadSelfie up to the await of .upload(): the name is made from the
\* props and the clock
UploadSelfie(uid, a) ==
  /\ nFrames < MaxFrames
  /\ nFrames' = nFrames + 1
  /\ uploads' = uploads \cup {[image |-> nFrames + 1, location |-> Coord(nFrames + 1),
                               userId |-> uid, action |-> a,
                               filename |-> Filename(uid, a, now),
                               today |-> NoRecord]}
  /\ UNCHANGED <<capture, view, pendingCam, pendingLoc, writes, loads, openStreams,
                 nStreams, stopped, cameraFailed, attendance, bucket, nextId, now, response, geofence>>

\* the bucket stores the object and uploadSelfie returns its public URL
UploadStored(u) ==
  /\ u \in uploads /\ UploadAccepted(bucket, u.filename)
  /\ uploads' = uploads \ {u}
  /\ bucket' = bucket \cup {u.filename}
  /\ UNCHANGED <<capture, view, pendingCam, pendingLoc, writes, loads, openStreams,
                 nStreams, stopped, cameraFailed, nFrames, attendance, nextId, now, response, geofence>>

\* .upload() answers with an error and uploadSelfie throws
UploadRejected(u) ==
  /\ u \in uploads
  /\ uploads' = uploads \ {u}
  /\ UNCHANGED <<capture, view, pendingCam, pendingLoc, writes, loads, world, response, geofence>>

NextUpload ==
  \/ \E uid \in Employees, a \in Actions : UploadSelfie(uid, a)
  \/ \E u \in uploads : UploadStored(u) \/ UploadRejected(u)
  \/ Tick

SpecUpload == InitUpload /\ [][NextUpload]_vars

\* ------------------------------------------------------ GeofenceValidator
\* calculateDistance in integer arithmetic.  Coordinates are in 1e-4 degree
\* (400009 is 40.0009), angles of whole coordinates in 1e-4 rad, differences
\* of angles in 1e-9 rad, distances and radii in millimetres.  Every step
\* rounds toward zero, which puts the result within 0.05 m of the double
\* the code computes for points up to 0.005 degree (500 m) apart: the terms
\* of the series that are left out are below one unit there.
MaxCalls == 3         \* calls of onValidationChange in one behaviour

\* division rounding toward zero
Quot(x, y) == IF x < 0 THEN -((-x) \div y) ELSE x \div y

\* (x * Math.PI) / 180 for a coordinate, in 1e-4 rad
ToRadians(deg) == Quot(Quot(deg, 10) * 17453, 100000)

\* ((x2 - x1) * Math.PI) / 180 for a difference of coordinates, in 1e-9 rad
DeltaRadians(ddeg) == Quot(ddeg * 1745329, 1000)

\* Math.cos of an angle in 1e-4 rad, in 1e-4: 1 - x^2/2 + x^4/24 - x^6/720
CosOf(x) ==
  CHOOSE c \in {10000 - x2 \div 2 + ((x2 * x2) \div 10000) \div 24
                       - ((((x2 * x2) \div 10000) * x2) \div 10000) \div 720 :
                  x2 \in {(x * x) \div 10000}} : TRUE

\* Math.sin of an angle in 1e-9 rad, in 1e-9: x - x^3/6
SinOf(x) ==
  CHOOSE s \in {IF x < 0 THEN -(m - ((((m * m) \div 1000000) * m) \div 1000000) \div 6000000)
                          ELSE m - ((((m * m) \div 1000000) * m) \div 1000000) \div 6000000 :
                  m \in {IF x < 0 THEN -x ELSE x}} : TRUE

\* the largest r in lo..hi with r * r <= n, by bisection
RECURSIVE SqrtBetween(_, _, _)
SqrtBetween(n, lo, hi) ==
  IF lo = hi THEN lo
  ELSE CHOOSE r \in {IF mid * mid <= n THEN SqrtBetween(n, mid, hi)
                                       ELSE SqrtBetween(n, lo, mid - 1) :
                     mid \in {(lo + hi + 1) \div 2}} : TRUE

\* Math.sqrt, rounded down
SqrtOf(n) == CHOOSE r \in {SqrtBetween(v, 0, 46340) : v \in {n}} : TRUE

\* Math.atan2(y, x) for y in 1e-9 and x in 1e-9 next to 1: y/x - (y/x)^3/3
Atan2Of(y, x) ==
  CHOOSE t \in {q - ((((q * q) \div 1000000) * q) \div 1000000) \div 3000000 :
                  q \in {y * (1000000000 \div x)}} : TRUE

\* Earth's radius, 6371e3 m, in km
R == 6371

\* a calculateDistance that leaves out the factor 2 of the central angle
CalculateDistanceHalved(lat1, lng1, lat2, lng2) ==
  CHOOSE d \in
    {(R * Atan2Of(SqrtOf(a), 1000000000 - (a \div 2) \div 1000000000)) \div 1000 :
       a \in {sinPhi * sinPhi + ((sinLam * sinLam) \div 10000) * cosCos :
                sinPhi \in {SinOf(Quot(DeltaRadians(lat2 - lat1), 2))},
                sinLam \in {SinOf(Quot(DeltaRadians(lng2 - lng1), 2))},
                cosCos \in {(CosOf(ToRadians(lat1)) * CosOf(ToRadians(lat2))) \div 10000}}}
    : TRUE

\* calculateDistance: a in 1e-18, c in 1e-9 rad, the result in mm.  The
\* sets of one element hold the code's constants a, sin, cos, each computed
\* once.
CalculateDistance(lat1, lng1, lat2, lng2) ==
  CHOOSE d \in
    {(R * (2 * Atan2Of(SqrtOf(a), 1000000000 - (a \div 2) \div 1000000000))) \div 1000 :
       a \in {sinPhi * sinPhi + ((sinLam * sinLam) \div 10000) * cosCos :
                sinPhi \in {SinOf(Quot(DeltaRadians(lat2 - lat1), 2))},
                sinLam \in {SinOf(Quot(DeltaRadians(lng2 - lng1), 2))},
                cosCos \in {(CosOf(ToRadians(lat1)) * CosOf(ToRadians(lat2))) \div 10000}}}
    : TRUE

\* a comparison that excludes the boundary
IsValidStrict(d, radius) == d < radius

\* calculatedDistance <= workLocation.radius
IsValid(d, radius) == d <= radius

Verdict(b) == IF b THEN "true" ELSE "false"

\* the work site of the scenario and the places a user reports: the centre,
\* 0.0009 degree north of it, and two places off both axes
Centre == [lat |-> 400000, lng |-> -740000]
UserLocations ==
  {Centre, [lat |-> 400009, lng |-> -740000], [lat |-> 400004, lng |-> -740005],
   [lat |-> 399990, lng |-> -740012]}

\* radii in mm: 0, 99 m, 100 m, 101 m, and the distance of the second place
Radii ==
  {0, 99000, 100000, 101000,
   CalculateDistance(400009, -740000, Centre.lat, Centre.lng)}

WorkLocations == {[lat |-> Centre.lat, lng |-> Centre.lng, radius |-> r] : r \in Radii}

\* the validator mounted with its first props; the effect of the mount is due
InitGeo ==
  /\ InitSession /\ attendance = {}
  /\ userLocation \in {NoUserLocation} \cup UserLocations
  /\ workLocation \in WorkLocations
  /\ isWithinGeofence = NoVerdict /\ distance = NoDistance
  /\ validationCalls = <<>> /\ effectDue = TRUE

\* a render whose userLocation is not in the effect's dependencies
SetUserLocationUnwatched(loc) ==
  /\ ~effectDue /\ Len(validationCalls) < MaxCalls
  /\ userLocation' = loc
  /\ UNCHANGED <<capture, view, flight, world, response, workLocation,
                 isWithinGeofence, distance, validationCalls, effectDue>>

\* the parent renders the validator with another userLocation (or null);
\* React runs the effects of a render before it renders again
SetUserLocation(loc) ==
  /\ ~effectDue /\ Len(validationCalls) < MaxCalls
  /\ userLocation' = loc
  /\ effectDue' = TRUE
  /\ UNCHANGED <<capture, view, flight, world, response, workLocation,
                 isWithinGeofence, distance, validationCalls>>

\* the parent renders the validator with another workLocation
SetWorkLocation(w) ==
  /\ ~effectDue /\ Len(validationCalls) < MaxCalls
  /\ workLocation' = w
  /\ effectDue' = TRUE
  /\ UNCHANGED <<capture, view, flight, world, response, userLocation,
                 isWithinGeofence, distance, validationCalls>>

\* the effect of lines 18-32
RunEffect ==
  /\ effectDue
  /\ effectDue' = FALSE
  /\ IF userLocation # NoUserLocation
       THEN LET calculatedDistance ==
                  CalculateDistance(userLocation.lat, userLocation.lng,
                                    workLocation.lat, workLocation.lng)
                isValid == IsValid(calculatedDistance, workLocation.radius)
            IN /\ distance' = calculatedDistance
               /\ isWithinGeofence' = Verdict(isValid)
               /\ validationCalls' = Append(validationCalls, Verdict(isValid))
       ELSE UNCHANGED <<isWithinGeofence, distance, validationCalls>>
  /\ UNCHANGED <<capture, view, flight, world, response, userLocation, workLocation>>

NextGeo ==
  \/ \E loc \in {NoUserLocation} \cup UserLocations : SetUserLocation(loc)
  \/ \E w \in WorkLocations : SetWorkLocation(w)
  \/ RunEffect

SpecGeo == InitGeo /\ [][NextGeo]_vars

\* React runs every effect that is due
FairSpecGeo == SpecGeo /\ WF_vars(RunEffect)

\* ================================================================ claims

C2_CancelReleasesCamera ==
  [][/\ HandleClose => openStreams' = {}
     /\ ~showSelfieCapture' => openStreams' \subseteq openStreams]_vars

C4_OneFlowAtATime ==
  pendingCam <= 1 /\ pendingLoc <= 1 /\ Cardinality(uploads) <= 1

C7_OneRecordPerEmployeeAndDate ==
  \A r1 \in attendance, r2 \in attendance :
    (r1.user_id = r2.user_id /\ r1.date = r2.date) => r1 = r2

\* C7 witness: a clock-in has added a second record to the table.
C7_Witness ==
  response.op = "upsert" /\ response.ok /\ Cardinality(attendance) = 2

C10_OnlyOwnerWrites ==
  /\ [](\A u \in Users : RoleOf[u] \in {"admin", "manager"} => Visible(u) = attendance)
  /\ [][\A r \in attendance' : r \notin attendance => r.user_id = response'.uid]_vars

\* C10 amended: a record is inserted only by the employee it belongs to and
\* updated only by that employee, an admin or a manager; admins and managers
\* can read every record.
C10_OwnerInsertsStaffUpdates ==
  /\ [](\A u \in Users : RoleOf[u] \in {"admin", "manager"} => Visible(u) = attendance)
  /\ [][\A r \in attendance' : r \notin attendance =>
          /\ response'.ok
          /\ response'.op = "insert" => r.user_id = response'.uid
          /\ response'.op = "update" =>
               \/ r.user_id = response'.uid
               \/ RoleOf[response'.uid] \in {"admin", "manager"}]_vars

\* C10 witness: a manager has updated a record of another user.
C10_Witness ==
  /\ response.op = "update" /\ response.ok /\ RoleOf[response.uid] = "manager"
  /\ \E r \in attendance : r.id = response.id /\ r.user_id # response.uid
                           /\ r.status = "late"

\* C11: a capturePhoto whose location request fails captures no image: the
\* captured image, the frame count, the live preview and its stream stay as
\* they were, and an error is recorded.
C11_LocationFailureKeepsPreview ==
  [][LocationFailed =>
       /\ capturedImage' = capturedImage
       /\ nFrames' = nFrames
       /\ location' = location
       /\ isCapturing' = isCapturing
       /\ streamRef' = streamRef
       /\ openStreams' = openStreams
       /\ error' # NoError]_vars

\* C11 witness: the location request of a Capture click has failed and the
\* session still shows the live preview, without an image.
C11_Witness ==
  /\ showSelfieCapture /\ isCapturing /\ streamRef \in openStreams
  /\ capturedImage = NoImage /\ nFrames = 0 /\ pendingLoc = 0
  /\ error = "capture"

\* C12: a failed upload records an error, leaves the captured image and the
\* coordinate as they were and ends the processing; with the image still
\* shown in the open dialog, Confirm can be clicked again.
C12_UploadFailureAllowsRetry ==
  /\ [][\A u \in uploads : UploadFailed(u) =>
          /\ error' # NoError
          /\ capturedImage' = capturedImage
          /\ location' = location
          /\ ~isProcessing']_vars
  /\ []((/\ error = "upload" /\ showSelfieCapture
         /\ capturedImage # NoImage /\ ~isProcessing) => ENABLED ConfirmCapture)

\* C12 witness: an upload has failed in the open dialog, which still holds
\* the image and the coordinate of the capture.
C12_Witness ==
  /\ error = "upload" /\ showSelfieCapture /\ ~isProcessing /\ uploads = {}
  /\ capturedImage # NoImage /\ location = Coord(capturedImage)

\* C13: a cancel during the live preview closes the session (no preview, no
\* image, dialog closed) and stops the preview's stream, and no stream is
\* ever stopped twice, whatever cancels follow.
C13_CancelStopsStreamOnce ==
  /\ [][(HandleClose /\ isCapturing /\ streamRef # NoStream) =>
          /\ ~showSelfieCapture' /\ ~isCapturing' /\ capturedImage' = NoImage
          /\ streamRef \notin openStreams'
          /\ streamRef' = NoStream
          /\ stopped' = Append(stopped, streamRef)]_vars
  /\ [](\A i \in DOMAIN stopped, j \in DOMAIN stopped :
          stopped[i] = stopped[j] => i = j)

\* C13 witness: the live preview was cancelled, the dialog was opened again
\* and that session was cancelled too.
C13_Witness ==
  /\ stopped = <<1>> /\ 1 \notin openStreams /\ streamRef = NoStream
  /\ ~showSelfieCapture /\ ~isCapturing /\ capturedImage = NoImage
  /\ nFrames = 0 /\ pendingCam > 0

C15_UploadKeysDistinct ==
  [][\A u \in uploads' \ uploads :
       /\ u.filename \notin bucket
       /\ \A v \in uploads : v.filename # u.filename]_vars

\* C16: once the effect has run for a present userLocation, the verdict the
\* validator stores and the one it passed last to onValidationChange say
\* true exactly when the distance to the centre is at most the radius, so
\* also when the two are equal.
C16_VerdictIsDistanceWithinRadius ==
  (userLocation # NoUserLocation /\ ~effectDue) =>
    LET d == CalculateDistance(userLocation.lat, userLocation.lng,
                               workLocation.lat, workLocation.lng) IN
    /\ distance = d
    /\ isWithinGeofence \in {"true", "false"}
    /\ isWithinGeofence = "true" <=> d <= workLocation.radius
    /\ validationCalls # <<>>
    /\ validationCalls[Len(validationCalls)] = isWithinGeofence

\* C16 witness: a user away from the centre, at a distance that is exactly
\* the radius, has been judged to be within the fence.
C16_Witness ==
  /\ userLocation # NoUserLocation /\ ~effectDue
  /\ distance > 0 /\ distance = workLocation.radius
  /\ isWithinGeofence = "true"
  /\ validationCalls[Len(validationCalls)] = "true"

\* C17: with userLocation absent and the effect of that render done, the
\* stored verdict is neither true nor false, and the caller is not left with
\* a true or false as the last value reported to it.
C17_AbsentLocationIsUnknown ==
  (userLocation = NoUserLocation /\ ~effectDue) =>
    /\ isWithinGeofence = NoVerdict
    /\ \/ validationCalls = <<>>
       \/ validationCalls[Len(validationCalls)] \notin {"true", "false"}

\* C18 as stated: for the centre (40.0, -74.0) and the user at
\* (40.0009, -74.0) the verdict is true with a radius of 100 m and false
\* with a radius of 99 m.
C18_ScenarioAsStated ==
  (/\ userLocation = [lat |-> 400009, lng |-> -740000]
   /\ workLocation.lat = 400000 /\ workLocation.lng = -740000
   /\ ~effectDue)
  => /\ workLocation.radius = 100000 => isWithinGeofence = "true"
     /\ workLocation.radius = 99000 => isWithinGeofence = "false"

\* C18 amended: for the centre (40.0, -74.0) and the user at
\* (40.0009, -74.0), about 100.07 m away, the verdict is false with a radius
\* of 99 m and with a radius of 100 m, and true with a radius of 101 m.
C18_ScenarioOutsideAt100 ==
  (/\ userLocation = [lat |-> 400009, lng |-> -740000]
   /\ workLocation.lat = 400000 /\ workLocation.lng = -740000
   /\ ~effectDue)
  => /\ distance > 100000 /\ distance < 101000
     /\ workLocation.radius = 99000 => isWithinGeofence = "false"
     /\ workLocation.radius = 100000 => isWithinGeofence = "false"
     /\ workLocation.radius = 101000 => isWithinGeofence = "true"

\* C18 witness: the user of the scenario has been judged against the radius
\* of 100 m and found outside.
C18_Witness ==
  /\ userLocation = [lat |-> 400009, lng |-> -740000]
  /\ workLocation = [lat |-> 400000, lng |-> -740000, radius |-> 100000]
  /\ ~effectDue /\ distance > 100000
  /\ isWithinGeofence = "false"
  /\ validationCalls # <<>> /\ validationCalls[Len(validationCalls)] = "false"

\* C19: every render with another present userLocation makes the effect
\* due, every effect that is due runs, and an effect that runs with a
\* present userLocation stores the verdict for it and calls
\* onValidationChange with that verdict.
C19_EveryLocationChangeReported ==
  /\ [][(userLocation' # userLocation /\ userLocation' # NoUserLocation)
        => effectDue']_vars
  /\ [][(effectDue /\ ~effectDue' /\ userLocation # NoUserLocation) =>
          LET v == Verdict(CalculateDistance(userLocation.lat, userLocation.lng,
                                             workLocation.lat, workLocation.lng)
                           <= workLocation.radius) IN
          /\ userLocation' = userLocation
          /\ isWithinGeofence' = v
          /\ validationCalls' = Append(validationCalls, v)]_vars
  /\ effectDue ~> ~effectDue

\* C19 witness: a user judged within the fence at the centre has moved away
\* and the second verdict has been reported.
C19_Witness ==
  /\ ~effectDue /\ validationCalls = <<"true", "false">>
  /\ userLocation = [lat |-> 399990, lng |-> -740012]
  /\ distance > workLocation.radius /\ isWithinGeofence = "false"

\* C20: a frame is captured only in the step in which the location request
\* of that capturePhoto call has resolved, after its coordinate was stored:
\* no image appears while its location is still awaited.
C20_LocationBeforeFrame ==
  [][(capturedImage' # capturedImage /\ capturedImage' # NoImage) =>
       /\ pendingLoc' = pendingLoc - 1
       /\ nFrames' = capturedImage'
       /\ location' = Coord(capturedImage')]_vars

\* C20 witness: a frame has been captured and the session holds it with the
\* coordinate its capturePhoto call resolved.
C20_Witness ==
  /\ showSelfieCapture /\ capturedImage # NoImage /\ ~isCapturing
  /\ location = Coord(capturedImage) /\ nFrames = capturedImage

\* C21: while the session holds a captured image no camera stream is open:
\* streamRef is null, isCapturing is false and no stream the session
\* acquired is still running.
C21_NoStreamWhileCaptured ==
  capturedImage # NoImage =>
    /\ streamRef = NoStream
    /\ ~isCapturing
    /\ openStreams = {}

\* C21 witness: a frame has been captured from the live preview and its
\* stream has been stopped.
C21_Witness ==
  /\ showSelfieCapture /\ capturedImage # NoImage
  /\ stopped = <<1>> /\ 1 \notin openStreams /\ nStreams = 1

\* C22: a rejected camera acquisition records an error and changes nothing
\* else: no stream is held, no new acquisition is pending; and after such a
\* failure the one acquisition of a new Start Camera click (which cleared
\* the error), when granted in the open dialog, gives the live preview.
C22_CameraFailureAllowsRetry ==
  /\ [][CameraDenied =>
          /\ error' # NoError
          /\ pendingCam' = pendingCam - 1
          /\ isCapturing' = isCapturing /\ streamRef' = streamRef
          /\ openStreams' = openStreams /\ nStreams' = nStreams]_vars
  /\ [][(/\ cameraFailed /\ showSelfieCapture
          /\ error = NoError /\ pendingCam = 1
          /\ nStreams' = nStreams + 1) =>
          /\ isCapturing'
          /\ streamRef' = nStreams']_vars

\* C23: the record a clock-in adds has status present, and a clock-out
\* leaves the status of every record as it was; neither writes late, absent
\* or early_departure.
C23_StatusOnlyPresent ==
  [][\A w \in writes :
       /\ UpsertExecuted(w) =>
            \A r \in attendance' \ attendance : r.status = "present"
       /\ UpdateExecuted(w) =>
            \A r \in attendance', o \in attendance :
              r.id = o.id => r.status = o.status]_vars

\* C23 witness: a clock-out has been written to a record, which still
\* carries the status present its clock-in gave it.
C23_Witness ==
  /\ response.op = "update" /\ response.ok
  /\ \E r \in attendance : /\ r.id = response.id
                           /\ r.clock_out_location # NoPoint
                           /\ r.status = "present"

\* C24: when the one acquisition of a Start Camera click is granted while
\* the dialog is open and idle, the session enters the live preview: the
\* new stream is open, recorded in streamRef, and isCapturing is true.
C24_GrantedCameraShowsPreview ==
  [][(/\ showSelfieCapture /\ ~isCapturing /\ capturedImage = NoImage
      /\ pendingCam = 1
      /\ nStreams' = nStreams + 1) =>
       /\ isCapturing'
       /\ streamRef' = nStreams'
       /\ streamRef' \in openStreams']_vars

\* C25: at most one camera stream of the session is open at any time, and
\* an open stream is the one streamRef refers to.
C25_OneReferencedStream ==
  /\ Cardinality(openStreams) <= 1
  /\ \A s \in openStreams : s = streamRef

====
